---- MODULE Spec2Model ----
(***************************************************************************)
(* QRuSSt: the audio capture / sliding-window FFT / image pipeline of      *)
(* src/src/main.rs, as a state machine.                                    *)
(*                                                                         *)
(* Threads: audio_capture (main.rs 78-143), the cpal stream callback       *)
(* (main.rs 112-114), fft_process (main.rs 145-247), image (main.rs        *)
(* 249-267) and the controlling GTK thread (gui.rs handlers, main.rs       *)
(* 289-295).                                                               *)
(*                                                                         *)
(* Samples are identified by their capture index (1, 2, 3, ...), so that   *)
(* the order and the origin of every value in a buffer can be observed.    *)
(* The FFT is kept uninterpreted: a frame records the exact input buffer   *)
(* it was computed from, its retained bins and its normalisation divisor.  *)
(***************************************************************************)
EXTENDS Integers, Sequences, FiniteSets, TLC

\* ---------------------------------------------------------------- bounds
MaxSamples == 8      \* samples the device delivers in one run
MaxPacket  == 2      \* longest packet handed to one stream callback
MaxQueue   == 2      \* packets in flight in the mpsc channel
MaxUpdates == 1      \* settings changes made through the GUI
MaxWinLen  == 5      \* longest window asked of a generator
MaxCalls   == 2      \* calls made to a function checked on its own
MaxSpins   == 2      \* changes made with the frequency spin buttons

\* ------------------------------------------------------ program constants
FrameMin       == 2      \* main.rs:159  frame_min = 2_u32
SecPerMin      == 60     \* main.rs:160  frame_min * 60
OverlapPercent == 33     \* main.rs:167  overlap_percent = 0.33 (in 1/100)
MaxRateNoOverflow == 35791394   \* main.rs:163  (2^32 - 1) div 120
WrapRemainder     == 16         \* main.rs:163  2^32 - 35791394 * 120
LnExactBelow      == 21         \* main.rs:178  f32 ln tells 2^k from 2^k + 1 for k < 21
LnSlackFrom21     == <<2, 2, 8>>   \* main.rs:178  for k = 21, 22, 23
DropSetLine       == 176        \* main.rs:176  drop(set)
Builds            == {"debug", "release"}   \* overflow checks on / off

Min(S) == CHOOSE m \in S : \A x \in S : m <= x

Max(S) == CHOOSE m \in S : \A x \in S : x <= m

\* ------------------------------------------------------ configuration space
\* Rates and widths are scaled so that rate * 120 / width, and with it the
\* analysis window, stays a few samples long: windows of 4, 5, 6 and 10.
Rates       == {1, 2}
Widths      == {40, 60}
InputDevices == {"hw"}             \* what host.input_devices() lists
DeviceNames == {"hw", "absent"}    \* what settings.audio.device may hold
DefaultRate  == Min(Rates)
DefaultWidth == Max(Widths)
DefaultHeight  == 720      \* settings.rs:180  dimensions (1280, 720)
DefaultFreqMin == 100      \* settings.rs:162  freq_range (100, 2800)
DefaultFreqMax == 2800     \* settings.rs:162

\* the fields of Settings the pipeline reads
SettingsOf(devices, rates, widths, heights, freq_mins, freq_maxs) ==
    [device : devices, rate : rates, width : widths, height : heights,
     freq_min : freq_mins, freq_max : freq_maxs]

NoCfg == [device |-> "", rate |-> 0]

VARIABLES
    settings,     \* Arc<Mutex<Settings>>: [device, rate, width, height,
                  \*                        freq_min, freq_max]
    set_lock,     \* holder of the settings mutex, "free" or "poisoned"
    restart,      \* cvar_ui_stream: the bool under its mutex
    start,        \* cvar_fft_img: the bool under its mutex
    start_lock,   \* holder of the cvar_fft_img mutex, or "free"
    quit,         \* quit_condition
    cap_pc,       \* audio_capture: position
    cap_cfg,      \* audio_capture: dev_name and cfg read at the loop top
    streams,      \* device input streams that exist
    senders,      \* live Sender handles of the channel
    chan,         \* packets in flight (mpsc queue)
    clock,        \* samples captured so far
    fft_pc,       \* fft_process: position
    params,       \* fft_process: derived parameters
    cur,          \* fft_process: rest of the packet being iterated
    buffer_raw,   \* fft_process: sliding raw buffer
    buffer_proc,  \* fft_process: how many values the last step left in
                  \*              the FFT work buffer
    frames,       \* fft_process: buffer_proc_lrg
    img_pc,       \* image: position
    ctl_pc,       \* controlling thread: position
    updates,      \* settings changes made so far
    \* history variables (observers, never read by the program)
    epoch,        \* restart wake-ups of the capture thread so far
    cfg_epoch,    \* epoch at which cap_cfg was read
    cfg_seen,     \* the shared settings at the moment cap_cfg was read
    outcome,      \* what the last device-open attempt ran into
    consumed,     \* samples pushed into buffer_raw so far
    frame_at,     \* value of consumed at each frame's emission
    captured_at,  \* for each sample, the rate of the stream that captured it
    calls         \* the calls made to the functions checked on their own
                  \* (window generators, Settings methods), with their results

vars == <<settings, set_lock, restart, start, start_lock, quit, cap_pc,
          cap_cfg, streams, senders, chan, clock, fft_pc, params, cur,
          buffer_raw, buffer_proc, frames, img_pc, ctl_pc, updates, epoch,
          cfg_epoch,
          cfg_seen, outcome, consumed, frame_at, captured_at, calls>>

pipeVars == <<settings, set_lock, restart, start, start_lock, quit, cap_pc,
              cap_cfg, streams, senders, chan, clock, fft_pc, params, cur,
              buffer_raw, buffer_proc, frames, img_pc, ctl_pc, updates, epoch,
          cfg_epoch,
              cfg_seen, outcome, consumed, frame_at, captured_at>>

ctlVars  == <<settings, restart, quit, ctl_pc, updates>>
capVars  == <<cap_pc, cap_cfg, streams, senders, epoch, cfg_epoch, cfg_seen,
              outcome>>
fftVars  == <<fft_pc, params, cur, buffer_raw, buffer_proc, frames, consumed,
              frame_at>>

\* ------------------------------------------------------------ sequences
Range(s) == {s[i] : i \in 1..Len(s)}

Take(s, n) == SubSeq(s, 1, IF n < Len(s) THEN n ELSE Len(s))

Repeat(x, n) == [i \in 1..n |-> x]

\* ------------------------------------------------- derived parameters
\* The arithmetic is u32 / f32 arithmetic.  It is modelled for settings whose
\* rate is below 2 * MaxRateNoOverflow and whose window is below 2^24 samples
\* (WindowSizeLimit), where every u32 <-> f32 conversion is exact.
FrameSec == FrameMin * SecPerMin

\* main.rs 163: sample_rate * frame_sec leaves u32
MulOverflows(rate) == rate > MaxRateNoOverflow

\* main.rs 163: the u32 product; a product that leaves u32 wraps (release
\* build): rate * 120 - 2^32 = (rate - MaxRateNoOverflow) * 120 - 16
SamplesPerFrame(rate) ==
    IF MulOverflows(rate)
    THEN (rate - MaxRateNoOverflow) * FrameSec - WrapRemainder
    ELSE rate * FrameSec

SamplesPerPixelX(rate, img_x) == SamplesPerFrame(rate) \div img_x

\* (spp as f32 * 0.33).round(): round half away from zero, spp >= 0.  The
\* f32 product rounds to this integer for every spp below 397253 and for
\* every spp the configurations below produce.
OverlapSamples(spp) == (spp * OverlapPercent + 50) \div 100

WindowSize(spp) == spp + OverlapSamples(spp) * 2

ShiftSize(spp) == WindowSize(spp) - OverlapSamples(spp)

RECURSIVE CeilLog2(_)
CeilLog2(n) == IF n <= 1 THEN 0 ELSE 1 + CeilLog2((n + 1) \div 2)

\* How many integers above 2^k have an f32 logarithm whose quotient by
\* 2_f32.ln() still rounds to k: ln(2^k + d) and ln(2^k) are the same f32
\* once k * ln 2 needs more than 24 bits to tell them apart (IEEE 754
\* single precision, correctly rounded ln).
LnSlack(k) ==
    IF k < LnExactBelow THEN 0 ELSE LnSlackFrom21[k - LnExactBelow + 1]

\* main.rs 178: ((window_size as f32).ln() / 2_f32.ln()).ceil() as u32;
\* ln(0) is -inf and the cast of -inf saturates to 0
NearestPow2(window_size) ==
    LET k == CeilLog2(window_size)
    IN  IF k >= 1 /\ window_size - 2 ^ (k - 1) <= LnSlack(k - 1)
        THEN k - 1
        ELSE k

\* main.rs 179
FftSize(window_size) == 2 ^ NearestPow2(window_size)

\* settings.fft_window.window_func: one coefficient per window position,
\* coefficient i named by its index
WindowFunc(window_size) == [i \in 1..window_size |-> i]

NoParams == [samples_per_pixel_x |-> 0, window_size |-> 0, shift_size |-> 0,
             overlap_samples |-> 0, fft_size |-> 0]

\* main.rs 158-179
DeriveParams(set) ==
    LET spp == SamplesPerPixelX(set.rate, set.width)
    IN  [samples_per_pixel_x |-> spp,
         window_size     |-> WindowSize(spp),
         shift_size      |-> ShiftSize(spp),
         overlap_samples |-> OverlapSamples(spp),
         fft_size        |-> FftSize(WindowSize(spp))]

\* main.rs 183: (sample_rate / 2) / (fft_size / 2 - 1); a wrapped divisor
\* (2^32 - 1) exceeds every dividend
FreqPerFftSamp(rate, fft_size) ==
    IF fft_size \div 2 = 0 THEN 0 ELSE (rate \div 2) \div (fft_size \div 2 - 1)

Fault(line, kind) == <<[line |-> line, kind |-> kind]>>

\* main.rs 183-186: the arithmetic after drop(set)
FaultsAfterDrop(set) ==
    LET fft_size == DeriveParams(set).fft_size
        per      == FreqPerFftSamp(set.rate, fft_size)
    IN  (IF fft_size \div 2 = 0 THEN Fault(183, "overflow") ELSE <<>>)
        \o (IF fft_size \div 2 = 1
            THEN Fault(183, "div_zero")
            ELSE (IF per > 0 /\ set.freq_max < set.freq_min
                  THEN Fault(186, "overflow") ELSE <<>>)
                 \o (IF set.height = 0 THEN Fault(186, "div_zero") ELSE <<>>))

\* main.rs 163-186 in program order: every u32 operation that leaves u32
\* ("overflow": a panic in a debug build, a wrapped value in a release build)
\* and every division by zero (a panic in both), up to the first division by
\* zero
Faults(set) ==
    (IF MulOverflows(set.rate) THEN Fault(163, "overflow") ELSE <<>>)
    \o (IF set.width = 0 THEN Fault(165, "div_zero") ELSE FaultsAfterDrop(set))

\* the faults that end the thread in the given build
Panics(build, faults) ==
    SelectSeq(faults, LAMBDA f : build = "debug" \/ f.kind = "div_zero")


\* ------------------------------------------------- window generators
\* windows.rs.  A coefficient is kept as the expression that produces it:
\* the shape's formula f applied to the f32 quotient num / den.  The
\* quotient 0.0 / 0.0 is NaN, and every sin, cos, product and sum of a NaN
\* is NaN.
Shapes == {"rectangle", "cosine", "triangle", "hamming", "hann", "blackman",
           "nuttall", "flat"}

Coefficient(f, num, den) == [f |-> f, num |-> num, den |-> den, nan |-> den = 0]

IsNaN(c) == c.nan

\* vec![1.; window_length]
One == Coefficient("id", 1, 1)

Abs(x) == IF x < 0 THEN -x ELSE x

IndicesInclusive(window_length) == 0..window_length

\* (0..window_length)
Indices(window_length) == 0..(window_length - 1)

\* .collect(): the vector's positions, one per index
Positions(window_length) == {n + 1 : n \in Indices(window_length)}

\* windows.rs 10-12
Rectangle(window_length) == Repeat(One, window_length)

\* windows.rs 15-67 but triangle: every term is a sin or cos of a multiple
\* of n as f32 / (window_length - 1) as f32; the subtraction is evaluated
\* once per element, so never for window_length = 0
Trigonometric(shape, window_length) ==
    [i \in Positions(window_length) |->
        Coefficient(shape, i - 1, window_length - 1)]

\* windows.rs 22-26: (2 / L) * (L / 2 - |n - (L - 1) / 2|) * 2, which is
\* (2 L - 2 |2 n - (L - 1)|) / L and divides by L only
Triangle(window_length) ==
    [i \in Positions(window_length) |->
        Coefficient("id",
                    2 * window_length - 2 * Abs(2 * (i - 1) - (window_length - 1)),
                    window_length)]

\* the generator of a shape; each returns a Vec<f32>, none returns an error
Generate(shape, window_length) ==
    [status |-> "returned",
     out    |-> CASE shape = "rectangle" -> Rectangle(window_length)
                  [] shape = "triangle"  -> Triangle(window_length)
                  [] OTHER               -> Trigonometric(shape, window_length)]

\* --------------------------------------------------- one window step
ZeroC == [s |-> 0, w |-> 0]

\* buffer_raw.iter().zip(&window.window_func).map(|x| Complex::from(x.0 * x.1)):
\* the pairing stops at the shorter sequence
Windowed(raw, window_func) ==
    [i \in 1..(IF Len(raw) < Len(window_func) THEN Len(raw) ELSE Len(window_func))
        |-> [s |-> raw[i], w |-> window_func[i]]]

ZeroPad(buf, fft_size, window_size) == buf \o Repeat(ZeroC, fft_size - window_size)

\* fft.process_with_scratch: the spectrum of buf, one bin per input value
FftForward(buf) == [of |-> buf, bins |-> [k \in 1..Len(buf) |-> k - 1]]

TruncateBinsForgotten(spectrum, n) == spectrum

\* main.rs 219: buffer_proc.truncate(fft_size / 2)
TruncateBins(spectrum, n) == [spectrum EXCEPT !.bins = Take(@, n)]

\* x.norm() / (fft_size as f32).sqrt() for every retained bin
Normalize(spectrum, fft_size) ==
    [of |-> spectrum.of, bins |-> spectrum.bins, norm |-> fft_size]

ProcKept(left) == left

\* main.rs 202: buffer_proc.clear()
ProcClear(left) == 0

\* a value of an earlier spectrum
StaleC == [s |-> 0, w |-> -1]

\* main.rs 202-210: clear, append the windowed samples, extend with zeros
FillProc(left, raw, p) ==
    ZeroPad(Repeat(StaleC, ProcClear(left)) \o Windowed(raw, WindowFunc(p.window_size)),
            p.fft_size, p.window_size)

\* main.rs 202-219: buffer_proc after the in-place FFT and the truncation
Transformed(left, raw, p) ==
    TruncateBins(FftForward(FillProc(left, raw, p)), p.fft_size \div 2)

\* how many values the step leaves in buffer_proc
LeftInProc(spectrum) == Len(spectrum.bins)

\* main.rs 202-224: the frame pushed to buffer_proc_lrg
MakeFrame(left, raw, p) == Normalize(Transformed(left, raw, p), p.fft_size)

RotateLeftForgotten(s, k) == s

\* Vec::rotate_left(k), k <= len
RotateLeft(s, k) == SubSeq(s, k + 1, Len(s)) \o SubSeq(s, 1, k)

TruncateForgotten(s, n) == s

\* Vec::truncate(n)
Truncate(s, n) == Take(s, n)

\* main.rs 226-227
SlideBuffer(raw, p) == Truncate(RotateLeft(raw, p.shift_size), p.overlap_samples)

\* the raw samples a frame was computed from
FrameSamples(f) == [i \in 1..Len(SelectSeq(f.of, LAMBDA c : c.w # 0)) |-> f.of[i].s]

\* ------------------------------------------------------------------ Init
\* main.rs 52-76, 145, 249: the shared flags, the channel and the threads
\* at their first statement
Constructed ==
    /\ set_lock = "free"
    /\ restart = FALSE
    /\ start = FALSE
    /\ start_lock = "free"
    /\ quit = FALSE
    /\ cap_pc = "lock_set"
    /\ cap_cfg = NoCfg
    /\ streams = {}
    /\ senders = {"orig"}
    /\ chan = <<>>
    /\ clock = 0
    /\ fft_pc = "lock_set"
    /\ params = NoParams
    /\ cur = <<>>
    /\ buffer_raw = <<>>
    /\ buffer_proc = 0
    /\ frames = <<>>
    /\ img_pc = "lock"
    /\ ctl_pc = "run"
    /\ updates = 0
    /\ epoch = 0
    /\ cfg_epoch = 0
    /\ cfg_seen = NoCfg
    /\ outcome = "none"
    /\ consumed = 0
    /\ frame_at = <<>>
    /\ captured_at = <<>>
    /\ calls = <<>>

Init ==
    /\ settings \in SettingsOf(DeviceNames, {DefaultRate}, {DefaultWidth},
                               {DefaultHeight}, {DefaultFreqMin}, {DefaultFreqMax})
    /\ Constructed

\* ------------------------------------------------ audio_capture thread
\* main.rs 84-87: clone the sender, lock the settings
CapLockSettings ==
    /\ cap_pc = "lock_set"
    /\ set_lock = "free"
    /\ set_lock' = "capture"
    /\ senders' = senders \cup {"clone"}
    /\ cap_pc' = "read_set"
    /\ UNCHANGED <<cap_cfg, streams, epoch, cfg_epoch, cfg_seen, outcome>>
    /\ UNCHANGED <<ctlVars, fftVars, start, start_lock, chan, clock, captured_at, calls, img_pc>>

GuardKept(holder) == holder

\* main.rs 98, 176: drop(set) unlocks the settings mutex
DropGuard(holder) == "free"

StreamsLeaked(open, gen) == open

\* main.rs 135: `stream` goes out of scope at the end of the if-let block
StreamsAfterScope(open, gen) == {s \in open : s.epoch # gen}

SendersAllDropped(live) == {}

\* main.rs 84, 112-114: the iteration's `tx` is a clone; it is dropped with
\* the callback that owns it, or at the end of the iteration
SendersAfterScope(live) == live \ {"clone"}

\* main.rs 126: while !*restart
LeaveWait(restart_flag, quit_flag) == restart_flag

ReadCfgOnce(old, set) ==
    IF old = NoCfg THEN [device |-> set.device, rate |-> set.rate] ELSE old

\* main.rs 88-95: dev_name and cfg from the locked settings
ReadCfg(old, set) == [device |-> set.device, rate |-> set.rate]

\* main.rs 88-98: read, then drop(set)
CapReadSettings ==
    /\ cap_pc = "read_set"
    /\ cap_cfg' = ReadCfg(cap_cfg, settings)
    /\ cfg_seen' = [device |-> settings.device, rate |-> settings.rate]
    /\ cfg_epoch' = epoch
    /\ set_lock' = DropGuard(set_lock)
    /\ cap_pc' = "open"
    /\ UNCHANGED <<streams, senders, epoch, outcome>>
    /\ UNCHANGED <<ctlVars, fftVars, start, start_lock, chan, clock, captured_at, calls, img_pc>>

AfterFailureExit == "done"

\* main.rs 135-138: every failing branch falls through to the quit check
AfterFailure == "quit_check"

\* main.rs 103-110: input_devices() may fail; the name filter finds a device
\* or none; build_input_stream succeeds or fails
OpenOutcomes(dev_name) ==
    {"enum_fail"} \cup
    (IF dev_name \in InputDevices THEN {"build_fail", "built"} ELSE {"no_device"})

\* main.rs 100-119: enumerate, filter by name, build the input stream
CapOpen ==
    /\ cap_pc = "open"
    /\ \E o \in OpenOutcomes(cap_cfg.device) :
        /\ outcome' = o
        /\ IF o = "built"
           THEN /\ streams' = streams \cup
                        {[cfg |-> cap_cfg, epoch |-> cfg_epoch, playing |-> FALSE]}
                /\ senders' = senders
                /\ cap_pc' = "play"
           ELSE /\ streams' = streams
                \* a closure handed to a failed build is dropped with its sender
                /\ senders' = IF o = "build_fail" THEN senders \ {"clone"} ELSE senders
                /\ cap_pc' = AfterFailure
    /\ UNCHANGED <<cap_cfg, epoch, cfg_epoch, cfg_seen>>
    /\ UNCHANGED <<ctlVars, fftVars, set_lock, start, start_lock, chan, clock, captured_at, calls, img_pc>>

\* main.rs 120, 130-135: stream.play(); on Err the stream goes out of scope
CapPlay ==
    /\ cap_pc = "play"
    /\ \E ok \in BOOLEAN :
        IF ok
        THEN /\ outcome' = "playing"
             /\ streams' = {[s EXCEPT !.playing = TRUE] : s \in streams}
             /\ senders' = senders
             /\ cap_pc' = "lock_restart"
        ELSE /\ outcome' = "play_fail"
             /\ streams' = StreamsAfterScope(streams, cfg_epoch)
             /\ senders' = senders \ {"clone"}
             /\ cap_pc' = AfterFailure
    /\ UNCHANGED <<cap_cfg, epoch, cfg_epoch, cfg_seen>>
    /\ UNCHANGED <<ctlVars, fftVars, set_lock, start, start_lock, chan, clock, captured_at, calls, img_pc>>

\* main.rs 124-127: lock, *restart = false, first test of the loop condition,
\* cvar.wait (which releases the mutex while parked)
CapClearAndPark ==
    /\ cap_pc = "lock_restart"
    /\ restart' = FALSE
    /\ cap_pc' = "parked"
    /\ UNCHANGED <<cap_cfg, streams, senders, epoch, cfg_epoch, cfg_seen, outcome>>
    /\ UNCHANGED <<settings, quit, ctl_pc, updates>>
    /\ UNCHANGED <<fftVars, set_lock, start, start_lock, chan, clock, captured_at, calls, img_pc>>

\* Condvar::wait may return without a notification
CapSpuriousWake ==
    /\ cap_pc = "parked"
    /\ cap_pc' = "woken"
    /\ UNCHANGED <<cap_cfg, streams, senders, epoch, cfg_epoch, cfg_seen, outcome>>
    /\ UNCHANGED <<ctlVars, fftVars, set_lock, start, start_lock, chan, clock, captured_at, calls, img_pc>>

\* main.rs 126-135: wait returns with the mutex held; while !*restart parks
\* again; otherwise the guard and then the stream go out of scope
CapWake ==
    /\ cap_pc = "woken"
    /\ IF LeaveWait(restart, quit)
       THEN /\ cap_pc' = "quit_check"
            /\ streams' = StreamsAfterScope(streams, cfg_epoch)
            /\ senders' = SendersAfterScope(senders)
            /\ epoch' = epoch + 1
       ELSE /\ cap_pc' = "parked"
            /\ UNCHANGED <<streams, senders, epoch>>
    /\ UNCHANGED <<cap_cfg, cfg_epoch, cfg_seen, outcome>>
    /\ UNCHANGED <<ctlVars, fftVars, set_lock, start, start_lock, chan, clock, captured_at, calls, img_pc>>

\* main.rs 138-142: the quit checkpoint; the iteration's sender clone and, on
\* break, the thread's own sender are dropped
CapQuitCheck ==
    /\ cap_pc = "quit_check"
    /\ IF quit
       THEN /\ cap_pc' = "done"
            /\ senders' = {}
       ELSE /\ cap_pc' = "lock_set"
            /\ senders' = SendersAfterScope(senders)
    /\ UNCHANGED <<cap_cfg, streams, epoch, cfg_epoch, cfg_seen, outcome>>
    /\ UNCHANGED <<ctlVars, fftVars, set_lock, start, start_lock, chan, clock, captured_at, calls, img_pc>>

\* ------------------------------------------------ cpal stream callback
\* main.rs 35-37, 112-114: send_samples pushes one packet per hardware buffer
Send(queue, packet) == Append(queue, packet)

\* the packet lengths of the pipeline runs
PacketSizes == 1..MaxPacket

\* `tagged` switches the history variable captured_at on; `sizes` are the
\* lengths the hardware buffer can have
Deliver(tagged, sizes) ==
    /\ \E s \in streams : s.playing
    /\ "clone" \in senders
    /\ Len(chan) < MaxQueue
    /\ \E n \in sizes :
        /\ clock + n <= MaxSamples
        /\ chan' = Send(chan, [i \in 1..n |-> clock + i])
        /\ clock' = clock + n
        /\ captured_at' =
               IF tagged
               THEN captured_at \o Repeat((CHOOSE s \in streams : s.playing).cfg.rate, n)
               ELSE captured_at
    /\ UNCHANGED <<capVars, ctlVars, fftVars, set_lock, start, start_lock, img_pc, calls>>

DeviceCallback == Deliver(FALSE, PacketSizes)

DeviceCallbackTagged == Deliver(TRUE, PacketSizes)

\* a callback whose buffer has any length, none and more than a window
\* included
DeviceCallbackAnySize == Deliver(FALSE, 0..MaxSamples)

\* ------------------------------------------------- fft_process thread
\* main.rs 153: lock the settings
FftLockSettings ==
    /\ fft_pc = "lock_set"
    /\ set_lock = "free"
    /\ set_lock' = "fft"
    /\ fft_pc' = "params"
    /\ UNCHANGED <<params, cur, buffer_raw, buffer_proc, frames, consumed, frame_at>>
    /\ UNCHANGED <<capVars, ctlVars, start, start_lock, chan, clock, captured_at, calls, img_pc>>

\* main.rs 155-194: derived parameters, drop(set), empty buffers.  Nothing
\* validates the settings: an arithmetic fault panics the thread, and a
\* panic before drop(set) poisons the settings mutex.  params holds the
\* locals that were computed when the thread stopped.
FftReadSettings ==
    /\ fft_pc = "params"
    /\ \E build \in Builds :
         LET panics == Panics(build, Faults(settings)) IN
         IF panics = <<>>
         THEN /\ params' = DeriveParams(settings)
              /\ set_lock' = DropGuard(set_lock)
              /\ fft_pc' = "recv"
         ELSE /\ params' = IF panics[1].line < DropSetLine
                          THEN params ELSE DeriveParams(settings)
              /\ set_lock' = IF panics[1].line < DropSetLine THEN "poisoned" ELSE "free"
              /\ fft_pc' = "panicked"
    /\ buffer_raw' = <<>>
    /\ buffer_proc' = 0
    /\ frames' = <<>>
    /\ UNCHANGED <<cur, consumed, frame_at>>
    /\ UNCHANGED <<capVars, ctlVars, start, start_lock, chan, clock, captured_at, calls, img_pc>>

RecvNonBlocking(queue, live) == IF queue # <<>> THEN "packet" ELSE "closed"

RecvLast(queue) == queue[Len(queue)]

\* mpsc::Receiver iteration: the oldest packet
RecvFirst(queue) == Head(queue)

\* mpsc::Receiver iteration (main.rs 196): a packet when one is queued, the
\* end of the iteration when the queue is empty and every sender is dropped,
\* and otherwise the thread blocks
Recv(queue, live) ==
    IF queue # <<>> THEN "packet"
    ELSE IF live = {} THEN "closed"
    ELSE "block"

ParamsRebuilt(p, set) == DeriveParams(set)

\* main.rs 237-240: the rebuild of the FFT chain on a settings change is
\* commented out; the loop keeps the parameters it was entered with
ParamsInLoop(p, set) == p

\* main.rs 196, 237-245
FftRecv ==
    /\ fft_pc = "recv"
    /\ Recv(chan, senders) # "block"
    /\ IF Recv(chan, senders) = "packet"
       THEN /\ cur' = RecvFirst(chan)
            /\ chan' = Tail(chan)
            /\ fft_pc' = "sample"
       ELSE /\ fft_pc' = "done"
            /\ UNCHANGED <<cur, chan>>
    /\ params' = ParamsInLoop(params, settings)
    /\ UNCHANGED <<buffer_raw, buffer_proc, frames, consumed, frame_at>>
    /\ UNCHANGED <<capVars, ctlVars, set_lock, start, start_lock, clock, captured_at, calls, img_pc>>

\* main.rs 200
WindowFull(raw, window_size) == Len(raw) >= window_size

RawDropped(raw) == <<>>

\* main.rs 235-241: the end of `for s in d` touches no buffer
AtPacketEnd(raw) == raw

\* main.rs 198-227: one sample of the packet; a full window is transformed,
\* pushed as a frame, and the raw buffer slides
FftSample ==
    /\ fft_pc = "sample"
    /\ IF cur = <<>>
       THEN /\ fft_pc' = "recv"
            /\ buffer_raw' = AtPacketEnd(buffer_raw)
            /\ UNCHANGED <<cur, buffer_proc, frames, consumed, frame_at>>
       ELSE LET raw == Append(buffer_raw, Head(cur)) IN
            /\ cur' = Tail(cur)
            /\ consumed' = consumed + 1
            /\ IF WindowFull(raw, params.window_size)
               THEN /\ frames' = Append(frames, MakeFrame(buffer_proc, raw, params))
                    /\ buffer_proc' = LeftInProc(Transformed(buffer_proc, raw, params))
                    /\ frame_at' = Append(frame_at, consumed + 1)
                    /\ buffer_raw' = SlideBuffer(raw, params)
                    /\ fft_pc' = "notify"
               ELSE /\ buffer_raw' = raw
                    /\ buffer_proc' = buffer_proc
                    /\ fft_pc' = "sample"
                    /\ UNCHANGED <<frames, frame_at>>
    /\ UNCHANGED params
    /\ UNCHANGED <<capVars, ctlVars, set_lock, start, start_lock, chan, clock, captured_at, calls, img_pc>>

NotifyLost(waiter_pc) == waiter_pc

\* main.rs 233: cvar.notify_one() makes a thread parked in cvar.wait runnable
NotifyOne(waiter_pc) == IF waiter_pc = "parked" THEN "woken" ELSE waiter_pc

\* main.rs 230-234: lock, *start = true, notify_one, guard dropped
FftNotify ==
    /\ fft_pc = "notify"
    /\ start_lock = "free"
    /\ start' = TRUE
    /\ img_pc' = NotifyOne(img_pc)
    /\ fft_pc' = "sample"
    /\ UNCHANGED <<params, cur, buffer_raw, buffer_proc, frames, consumed, frame_at>>
    /\ UNCHANGED <<capVars, ctlVars, set_lock, start_lock, chan, clock, captured_at, calls>>

\* ------------------------------------------------------- image thread
\* main.rs 257-260: lock; while !*start parks in cvar.wait (mutex released)
ImgLock ==
    /\ img_pc = "lock"
    /\ start_lock = "free"
    /\ IF start
       THEN /\ start_lock' = "image"
            /\ img_pc' = "quit_check"
       ELSE /\ start_lock' = "free"
            /\ img_pc' = "parked"
    /\ UNCHANGED <<capVars, ctlVars, fftVars, set_lock, start, chan, clock, captured_at, calls>>

\* Condvar::wait may return without a notification
ImgSpuriousWake ==
    /\ img_pc = "parked"
    /\ img_pc' = "woken"
    /\ UNCHANGED <<capVars, ctlVars, fftVars, set_lock, start, start_lock, chan, clock, captured_at, calls>>

\* main.rs 259-260: wait returns with the mutex held; the condition is tested again
ImgWake ==
    /\ img_pc = "woken"
    /\ start_lock = "free"
    /\ IF start
       THEN /\ start_lock' = "image"
            /\ img_pc' = "quit_check"
       ELSE /\ start_lock' = "free"
            /\ img_pc' = "parked"
    /\ UNCHANGED <<capVars, ctlVars, fftVars, set_lock, start, chan, clock, captured_at, calls>>

\* main.rs 262-266: the quit checkpoint, taken with the start guard held; the
\* guard is dropped at the end of the iteration
ImgQuitCheck ==
    /\ img_pc = "quit_check"
    /\ img_pc' = IF quit THEN "done" ELSE "lock"
    /\ start_lock' = "free"
    /\ UNCHANGED <<capVars, ctlVars, fftVars, set_lock, start, chan, clock, captured_at, calls>>

\* ------------------------------------------------- controlling thread
\* gui.rs 154-163: the rate entry stores the chosen rate
CtlSetRate ==
    /\ ctl_pc = "run"
    /\ updates < MaxUpdates
    /\ set_lock = "free"
    /\ \E r \in Rates \ {settings.rate} : settings' = [settings EXCEPT !.rate = r]
    /\ updates' = updates + 1
    /\ ctl_pc' = "changed"
    /\ UNCHANGED <<restart, quit>>
    /\ UNCHANGED <<capVars, fftVars, set_lock, start, start_lock, chan, clock, captured_at, calls, img_pc>>

\* gui.rs 273-279: the width spin button stores the image width
CtlSetWidth ==
    /\ ctl_pc = "run"
    /\ updates < MaxUpdates
    /\ set_lock = "free"
    /\ \E w \in Widths \ {settings.width} : settings' = [settings EXCEPT !.width = w]
    /\ updates' = updates + 1
    /\ UNCHANGED <<restart, quit, ctl_pc>>
    /\ UNCHANGED <<capVars, fftVars, set_lock, start, start_lock, chan, clock, captured_at, calls, img_pc>>

\* restart trigger: after an audio setting changed, *restart = true under the
\* mutex and the condition variable is notified
CtlRestart ==
    /\ ctl_pc = "changed"
    /\ restart' = TRUE
    /\ cap_pc' = IF cap_pc = "parked" THEN "woken" ELSE cap_pc
    /\ ctl_pc' = "run"
    /\ UNCHANGED <<settings, quit, updates>>
    /\ UNCHANGED <<cap_cfg, streams, senders, epoch, cfg_epoch, cfg_seen, outcome>>
    /\ UNCHANGED <<fftVars, set_lock, start, start_lock, chan, clock, captured_at, calls, img_pc>>

\* quit trigger: the quit flag is set
CtlQuit ==
    /\ ctl_pc = "run"
    /\ quit' = TRUE
    /\ ctl_pc' = "quit_notify_restart"
    /\ UNCHANGED <<settings, restart, updates>>
    /\ UNCHANGED <<capVars, fftVars, set_lock, start, start_lock, chan, clock, captured_at, calls, img_pc>>

\* ... then the restart condition variable is notified
CtlNotifyRestart ==
    /\ ctl_pc = "quit_notify_restart"
    /\ cap_pc' = IF cap_pc = "parked" THEN "woken" ELSE cap_pc
    /\ ctl_pc' = "quit_notify_frame"
    /\ UNCHANGED <<settings, restart, quit, updates>>
    /\ UNCHANGED <<cap_cfg, streams, senders, epoch, cfg_epoch, cfg_seen, outcome>>
    /\ UNCHANGED <<fftVars, set_lock, start, start_lock, chan, clock, captured_at, calls, img_pc>>

\* ... then the frame-ready condition variable is notified
CtlNotifyFrame ==
    /\ ctl_pc = "quit_notify_frame"
    /\ img_pc' = IF img_pc = "parked" THEN "woken" ELSE img_pc
    /\ ctl_pc' = "join"
    /\ UNCHANGED <<settings, restart, quit, updates>>
    /\ UNCHANGED <<capVars, fftVars, set_lock, start, start_lock, chan, clock, captured_at, calls>>

\* main.rs 291-295: join every worker
CtlJoin ==
    /\ ctl_pc = "join"
    /\ cap_pc = "done" /\ fft_pc = "done" /\ img_pc = "done"
    /\ ctl_pc' = "exit"
    /\ UNCHANGED <<settings, restart, quit, updates>>
    /\ UNCHANGED <<capVars, fftVars, set_lock, start, start_lock, chan, clock, captured_at, calls, img_pc>>

\* ------------------------------------------------------ specification
Capture ==
    \/ CapLockSettings \/ CapReadSettings \/ CapOpen \/ CapPlay
    \/ CapClearAndPark \/ CapWake \/ CapQuitCheck

Transform == FftLockSettings \/ FftReadSettings \/ FftRecv \/ FftSample \/ FftNotify

Image == ImgLock \/ ImgWake \/ ImgQuitCheck

Controller ==
    \/ CtlSetRate \/ CtlSetWidth \/ CtlRestart
    \/ CtlQuit \/ CtlNotifyRestart \/ CtlNotifyFrame \/ CtlJoin

Next ==
    \/ Capture \/ Transform \/ Image \/ Controller
    \/ DeviceCallback \/ CapSpuriousWake \/ ImgSpuriousWake

Spec == Init /\ [][Next]_vars

\* Every thread that can take a step eventually takes one; a spurious wake-up
\* and the user's actions are never guaranteed.
FairSpec ==
    /\ Spec
    /\ WF_vars(Capture)
    /\ WF_vars(Transform)
    /\ WF_vars(Image)
    /\ WF_vars(DeviceCallback)
    /\ WF_vars(CtlRestart \/ CtlNotifyRestart \/ CtlNotifyFrame \/ CtlJoin)

\* The pipeline with every sample tagged by the stream that captured it
GenNext ==
    \/ Capture \/ Transform \/ Image \/ Controller
    \/ DeviceCallbackTagged \/ CapSpuriousWake \/ ImgSpuriousWake

GenSpec == Init /\ [][GenNext]_vars

\* ------------------------------------- the window generators on their own
\* one call of a generator
WinCall ==
    /\ Len(calls) < MaxCalls
    /\ \E shape \in Shapes, length \in 0..MaxWinLen :
         calls' = Append(calls, [shape  |-> shape,
                             length |-> length,
                             result |-> Generate(shape, length)])
    /\ UNCHANGED pipeVars

WinNext == WinCall

WindowSpec == Init /\ [][WinNext]_vars

\* ------------------------------------- the derivation on its own inputs
\* Settings as a configuration file or the GUI can leave them (nothing
\* validates them, settings.rs 251-263): unscaled rates and widths, among
\* them a zero width, a width above rate * 120, and a rate whose product
\* with 120 leaves u32.
ParamRates   == {1, 2, 67, 48000, 84223, 35791395}
ParamWidths  == {0, 8, 120, 241, 1280}
ParamHeights == {0, DefaultHeight}
ParamFreqs   == {DefaultFreqMin, DefaultFreqMax}

ParamInit ==
    /\ settings \in SettingsOf(InputDevices, ParamRates, ParamWidths,
                               ParamHeights, ParamFreqs, ParamFreqs)
    /\ Constructed

ParamNext == FftLockSettings \/ FftReadSettings

\* fft_process from its first statement to its consumption loop
ParamSpec == ParamInit /\ [][ParamNext]_vars

\* --------------------------------------- the frequency range on its own
\* What the command line and the two spin buttons can store.  f_range
\* (settings.rs 31-41) accepts each end between 50 and 3000; the handlers of
\* the spin buttons store whatever value the widget holds.
FRangeLow  == 50       \* settings.rs:33  val >= 50
FRangeHigh == 3000     \* settings.rs:33  val <= 3000
CliFreqs   == {FRangeLow, DefaultFreqMin, DefaultFreqMax, FRangeHigh}
SpinFreqs  == {FRangeLow, DefaultFreqMin, DefaultFreqMax, FRangeHigh}

\* no --f-range on the command line
NoFreqArg == <<>>

\* what values_of("frequency_range") can hand over: nothing, or two values
\* that each passed f_range
FreqArgs == {NoFreqArg} \cup {<<a, b>> : a \in CliFreqs, b \in CliFreqs}

\* freq.sort_unstable()
SortUnstable(freq) ==
    IF freq[1] <= freq[2] THEN freq ELSE <<freq[2], freq[1]>>

\* settings.rs 319-323: the frequency range of arg_override
ArgOverrideFreq(set, freq) ==
    IF freq = NoFreqArg
    THEN set
    ELSE [set EXCEPT !.freq_min = SortUnstable(freq)[1],
                     !.freq_max = SortUnstable(freq)[2]]

\* settings.rs 160, 162, 180: Settings::default()
DefaultSettings ==
    [device |-> "hw", rate |-> 48000, width |-> 1280, height |-> DefaultHeight,
     freq_min |-> DefaultFreqMin, freq_max |-> DefaultFreqMax]

\* main.rs 45-76: the settings after the command line was applied, the
\* threads at their first statement
RangeInit ==
    /\ settings \in {ArgOverrideFreq(DefaultSettings, freq) : freq \in FreqArgs}
    /\ Constructed

\* gui.rs 289-297: the minimum spin button stores its value
CtlSetFreqMin ==
    /\ ctl_pc = "run"
    /\ updates < MaxSpins
    /\ set_lock = "free"
    /\ \E v \in SpinFreqs \ {settings.freq_min} :
         settings' = [settings EXCEPT !.freq_min = v]
    /\ updates' = updates + 1
    /\ UNCHANGED <<restart, quit, ctl_pc>>
    /\ UNCHANGED <<capVars, fftVars, set_lock, start, start_lock, chan, clock, captured_at, calls, img_pc>>

\* gui.rs 299-307: the maximum spin button stores its value
CtlSetFreqMax ==
    /\ ctl_pc = "run"
    /\ updates < MaxSpins
    /\ set_lock = "free"
    /\ \E v \in SpinFreqs \ {settings.freq_max} :
         settings' = [settings EXCEPT !.freq_max = v]
    /\ updates' = updates + 1
    /\ UNCHANGED <<restart, quit, ctl_pc>>
    /\ UNCHANGED <<capVars, fftVars, set_lock, start, start_lock, chan, clock, captured_at, calls, img_pc>>

RangeNext ==
    \/ CtlSetFreqMin \/ CtlSetFreqMax
    \/ FftLockSettings \/ FftReadSettings

\* the configuration updates of the frequency range and the stage that
\* reads it
RangeSpec == RangeInit /\ [][RangeNext]_vars

\* ----------------------------------- the configuration file on its own
\* settings.rs 232-275.  A Settings value is observed on four of its
\* fields; a path is the sequence of its components.  A file is a sequence
\* of cells of equal size: a value of n tokens makes a line of n cells, so
\* that files differ in length and a line can be cut in two.
ConfigPath  == "config.toml"
FilePrefix  == "file:"                    \* settings.rs:245  "file://"
ExportPaths == {<<"export">>, <<FilePrefix, "export">>}
RateText    == (48000 :> <<"48000">>) @@ (192000 :> <<"192", "000">>)

ConfSettings ==
    [config : {ConfigPath}, rate : DOMAIN RateText, export_path : ExportPaths,
     export_enable : BOOLEAN]

BoolText(b) == IF b THEN "true" ELSE "false"

\* one `key = value` line of the file
Line(key, val) ==
    [n \in 1..Len(val) |-> [key |-> key, val |-> val, part |-> n, of |-> Len(val)]]

CommentLine == Line("#", <<"comment">>)

\* settings.rs 270: toml::to_string(self), the fields in declaration order
Coded(s) ==
    Line("config", <<s.config>>) \o Line("rate", RateText[s.rate])
    \o Line("export_path", s.export_path)
    \o Line("export_enable", <<BoolText(s.export_enable)>>)

NoFile == [exists |-> FALSE, cells |-> <<>>]

FileOf(cells) == [exists |-> TRUE, cells |-> cells]

NoLines == [ok |-> FALSE, lines |-> <<>>]

\* the TOML parser: the cells as whole lines, or a syntax error
RECURSIVE SplitLines(_)
SplitLines(cells) ==
    IF cells = <<>> THEN [ok |-> TRUE, lines |-> <<>>]
    ELSE LET c == cells[1] IN
         IF \/ c.part # 1
            \/ Len(cells) < c.of
            \/ \E n \in 2..c.of : n <= Len(cells) /\ cells[n] # [c EXCEPT !.part = n]
         THEN NoLines
         ELSE LET rest == SplitLines(SubSeq(cells, c.of + 1, Len(cells))) IN
              IF rest.ok
              THEN [ok |-> TRUE, lines |-> <<[key |-> c.key, val |-> c.val]>> \o rest.lines]
              ELSE NoLines

\* TOML: a key defined twice is an error
DuplicateKey(lines) ==
    \E i, j \in 1..Len(lines) :
        i < j /\ lines[i].key = lines[j].key /\ lines[i].key # "#"

\* serde: the value of a field deserializes into the field's type
WellTyped(line) ==
    CASE line.key = "rate"          -> line.val \in {RateText[r] : r \in DOMAIN RateText}
      [] line.key = "export_enable" -> line.val[1] \in {"true", "false"}
      [] OTHER                      -> TRUE

\* the field a line's value deserializes to
FieldOf(line) ==
    CASE line.key = "rate" ->
            CHOOSE r \in DOMAIN RateText : RateText[r] = line.val
      [] line.key = "export_enable" -> line.val[1] = "true"
      [] line.key = "config"        -> line.val[1]
      [] OTHER                      -> line.val

\* settings.rs 252-260: Config::try_from(&self), merge of the file, try_into:
\* every key the file holds replaces the value of self
Merged(self, lines) ==
    [k \in DOMAIN self |->
        IF \E i \in 1..Len(lines) : lines[i].key = k
        THEN FieldOf(lines[CHOOSE i \in 1..Len(lines) : lines[i].key = k])
        ELSE self[k]]

\* settings.rs 244-249: starts_with compares whole components
ValidateExportPath(s) ==
    IF s.export_path # <<>> /\ s.export_path[1] = FilePrefix
    THEN s
    ELSE [s EXCEPT !.export_path = <<FilePrefix>> \o @]

ErrLeavesValidated(self) == ValidateExportPath(self)

\* settings.rs 258, 260: `?` returns before *self is assigned
ErrLeaves(self) == self

\* settings.rs 251-263
ReadConfig(self, file) ==
    LET parsed == SplitLines(file.cells) IN
    IF \/ ~file.exists
       \/ ~parsed.ok
       \/ DuplicateKey(parsed.lines)
       \/ \E i \in 1..Len(parsed.lines) : ~WellTyped(parsed.lines[i])
    THEN [ret |-> "Err", self |-> ErrLeaves(self), file |-> file]
    ELSE [ret |-> "Ok", self |-> ValidateExportPath(Merged(self, parsed.lines)),
          file |-> file]

\* OpenOptions::new().write(true).create(true) and write_all: the bytes are
\* written from offset 0 and the file keeps whatever it held beyond them
WriteAll(file, coded) ==
    FileOf(coded \o SubSeq(file.cells, Len(coded) + 1, Len(file.cells)))

\* settings.rs 265-275
WriteConfig(self, file, writable) ==
    IF ~writable
    THEN [ret |-> "Err", self |-> self, file |-> file]
    ELSE [ret |-> "Ok", self |-> self, file |-> WriteAll(file, Coded(self))]

\* what the config path can name before the first call: nothing, a file
\* written from a Settings value, such a file with a comment after it, a
\* file with one line only, a file whose rate is not a number, and a file
\* that starts in the middle of a line
OldFiles ==
    {NoFile}
    \cup {FileOf(Coded(s)) : s \in ConfSettings}
    \cup {FileOf(Coded(s) \o CommentLine) : s \in ConfSettings}
    \cup {FileOf(Line("rate", <<"48000">>)),
          FileOf(Line("rate", <<"fast">>)),
          FileOf(Tail(Line("export_path", <<FilePrefix, "export">>)))}

\* the file the next call finds
FileNow == IF calls = <<>> THEN OldFiles ELSE {calls[Len(calls)].file_after}

Logged(op, self, file, out) ==
    [op |-> op, self |-> self, file |-> file, ret |-> out.ret,
     self_after |-> out.self, file_after |-> out.file]

\* one call of read_config
ConfRead ==
    /\ Len(calls) < MaxCalls
    /\ \E self \in ConfSettings, file \in FileNow :
         calls' = Append(calls, Logged("read_config", self, file,
                                       ReadConfig(self, file)))
    /\ UNCHANGED pipeVars

\* one call of write_config
ConfWrite ==
    /\ Len(calls) < MaxCalls
    /\ \E self \in ConfSettings, file \in FileNow, writable \in BOOLEAN :
         calls' = Append(calls, Logged("write_config", self, file,
                                       WriteConfig(self, file, writable)))
    /\ UNCHANGED pipeVars

ConfNext == ConfRead \/ ConfWrite

ConfigSpec == Init /\ [][ConfNext]_vars

\* main.rs 202-210 by lengths: how many products the zip with a window of
\* window_len coefficients yields, and how many zeros are appended; a
\* negative count stands for the u32 difference that wrapped (2^32 + zeros)
FftInputLengths(p, window_len) ==
    [products |-> Min({p.window_size, window_len}),
     zeros    |-> p.fft_size - p.window_size]

\* ----------------------------------- the stage under any packet split
\* the buffers of the loop before its first sample
LoopStart == [raw |-> <<>>, proc |-> 0, frames |-> <<>>]

\* main.rs 198-227 over one packet: buffer_raw, buffer_proc and
\* buffer_proc_lrg after `for s in d`
RECURSIVE Consume(_, _, _)
Consume(bufs, d, p) ==
    IF d = <<>> THEN bufs
    ELSE LET raw == Append(bufs.raw, Head(d)) IN
         IF WindowFull(raw, p.window_size)
         THEN Consume([raw    |-> SlideBuffer(raw, p),
                       proc   |-> LeftInProc(Transformed(bufs.proc, raw, p)),
                       frames |-> Append(bufs.frames, MakeFrame(bufs.proc, raw, p))],
                      Tail(d), p)
         ELSE Consume([bufs EXCEPT !.raw = raw], Tail(d), p)

\* the capture thread up to its wait, with nobody to wake it
PacketNext ==
    \/ CapLockSettings \/ CapReadSettings \/ CapOpen \/ CapPlay
    \/ CapClearAndPark
    \/ Transform
    \/ DeviceCallbackAnySize

\* capture, callback and transform stage with packets of every length
PacketSpec == Init /\ [][PacketNext]_vars

\* ------------------------------------------------- mutexes and threads
\* main.rs 78-79, 144-145, 248-249: the three workers; gtk::main() runs the
\* handlers of the controlling thread
Threads == {"capture", "fft", "image", "controller"}

\* the threads that keep a guard from one of their steps to the next
Holders == {set_lock, start_lock} \cap Threads

\* the mutexes whose guard a thread keeps from one of its steps to the next:
\* `set` from main.rs 87 to 98 and from 153 to 176, `start` from main.rs 258
\* to the end of the image loop's iteration. Every other guard (main.rs 124,
\* 138, 231, 262, every handler of gui.rs) is taken and dropped, or given up
\* to Condvar::wait, with no lock() in between.
Held(t) ==
    CASE t \in {"capture", "fft"} /\ set_lock = t -> {"settings"}
      [] t = "image" /\ start_lock = t -> {"start"}
      [] OTHER -> {}

\* the mutexes the next step of a thread can call lock() on (Condvar::wait
\* returning locks its mutex again)
Wants(t) ==
    CASE t = "capture" ->
            (CASE cap_pc = "lock_set" -> {"settings"}
               [] cap_pc \in {"lock_restart", "woken"} -> {"restart"}
               [] cap_pc = "quit_check" -> {"quit"}
               [] OTHER -> {})
      [] t = "fft" ->
            (CASE fft_pc = "lock_set" -> {"settings"}
               [] fft_pc = "notify" -> {"start"}
               [] OTHER -> {})
      [] t = "image" ->
            (CASE img_pc \in {"lock", "woken"} -> {"start"}
               [] img_pc = "quit_check" -> {"quit"}
               [] OTHER -> {})
      [] t = "controller" ->
            (CASE ctl_pc = "run" -> {"settings", "quit"}
               [] ctl_pc = "changed" -> {"restart"}
               [] OTHER -> {})

\* ----------------------------------- the command line on its own
\* settings.rs 277-341.  A Settings value is observed on the fields below
\* besides those of DefaultSettings; an option that takes a value is <<>>
\* when it was not given and <<value>> when it was.
\* settings.rs 176-203, 344-356: Image::default(), Export::default(),
\* Settings::default()
ArgDefault ==
    DefaultSettings @@
    [verbose |-> 0, use_window_xy |-> FALSE, brightness |-> 50, export_enable |-> TRUE]

\* the values arg_override can be called on: the defaults, and the defaults
\* with what a configuration file stored over them
ArgSelves ==
    {ArgDefault,
     [ArgDefault EXCEPT !.verbose = 2, !.use_window_xy = TRUE],
     [ArgDefault EXCEPT !.export_enable = FALSE, !.brightness = 80]}

\* str::parse::<u8>: the texts that parse, with their values
U8Text == ("7" :> 7) @@ ("100" :> 100)

\* settings.rs 74-93: what get_matches can hand over.  --brightness has no
\* validator, so any text passes; --rate is one of the possible_values
ArgMatches ==
    [verbose : 0..3, window : BOOLEAN, export_images : BOOLEAN,
     brightness : {<<>>, <<"7">>, <<"100">>, <<"300">>, <<"dim">>},
     frequency_range : FreqArgs,
     rate : {<<>>, <<192000>>}]

\* settings.rs 278-282: the match on occurrences_of("verbose")
Verbosity(occurrences) == IF occurrences >= 2 THEN 2 ELSE occurrences

\* settings.rs 277-341 in program order; b.parse().unwrap() panics on a text
\* that is no u8, after the assignments before it
ArgOverride(self, cli) ==
    LET upto_window == [self EXCEPT !.verbose = Verbosity(cli.verbose),
                                    !.use_window_xy = cli.window]
    IN  IF cli.brightness # <<>> /\ cli.brightness[1] \notin DOMAIN U8Text
        THEN [ret |-> "panic", self |-> upto_window]
        ELSE LET upto_export ==
                     [upto_window EXCEPT
                         !.brightness = IF cli.brightness = <<>> THEN @
                                        ELSE U8Text[cli.brightness[1]],
                         !.export_enable = cli.export_images]
                 upto_freq == ArgOverrideFreq(upto_export, cli.frequency_range)
             IN  [ret  |-> "Ok",
                  self |-> IF cli.rate = <<>> THEN upto_freq
                           ELSE [upto_freq EXCEPT !.rate = cli.rate[1]]]

\* main.rs 51-53: the command line is applied once
ArgCall ==
    /\ calls = <<>>
    /\ \E self \in ArgSelves, cli \in ArgMatches :
         calls' = Append(calls, [op |-> "arg_override", self |-> self, cli |-> cli,
                                 ret |-> ArgOverride(self, cli).ret,
                                 self_after |-> ArgOverride(self, cli).self])
    /\ UNCHANGED pipeVars

ArgNext == ArgCall

ArgSpec == Init /\ [][ArgNext]_vars

TypeOK ==
    /\ cap_pc \in {"lock_set", "read_set", "open", "play", "lock_restart",
                   "parked", "woken", "quit_check", "done"}
    /\ fft_pc \in {"lock_set", "params", "recv", "sample", "notify", "done",
                   "panicked"}
    /\ img_pc \in {"lock", "parked", "woken", "quit_check", "done"}
    /\ set_lock \in {"free", "capture", "fft", "poisoned"}
    /\ start_lock \in {"free", "image"}

\* ---------------------------------------------------------- observers
AllWorkersDone == cap_pc = "done" /\ fft_pc = "done" /\ img_pc = "done"

Failures == {"enum_fail", "no_device", "build_fail", "play_fail"}

LastN(s, n) == SubSeq(s, Len(s) - n + 1, Len(s))

RECURSIVE Flatten(_)
Flatten(q) == IF q = <<>> THEN <<>> ELSE Head(q) \o Flatten(Tail(q))

IsIncreasing(s) == \A i \in 1..(Len(s) - 1) : s[i] < s[i + 1]

\* ------------------------------------------------------------- claims

\* C1: once quit is set and both condition variables have been notified,
\* every worker thread (audio_capture, fft_process, image) eventually
\* terminates, so that the join in main completes.
ShutdownLiveness == (quit /\ ctl_pc = "join") ~> AllWorkersDone

\* C2: every stream that exists was built from a configuration read from the
\* shared settings after the wake-up that started its generation: its
\* configuration is the device name and rate the settings held at that read,
\* and that read happened in the current generation.
RestartRereadsConfig ==
    \A s \in streams : s.epoch = epoch /\ s.cfg = cfg_seen

RestartRereadsConfigWitness ==
    \E s \in streams : s.epoch >= 1 /\ s.cfg.rate # DefaultRate

\* C3: immediately after a completed window step the raw sliding buffer has
\* exactly overlap_samples entries, and they are the last overlap_samples
\* samples of the window just transformed, in their order.
SlidingBufferPostStep ==
    fft_pc = "notify" =>
        /\ Len(buffer_raw) = params.overlap_samples
        /\ buffer_raw =
             LastN(FrameSamples(frames[Len(frames)]), params.overlap_samples)

SlidingBufferPostStepWitness ==
    /\ fft_pc = "notify"
    /\ Len(frames) >= 2
    /\ params.overlap_samples >= 1
    /\ buffer_raw # <<>>

\* C4: after a completed window, the next frame is emitted exactly on the
\* shift_size-th further sample, and fewer than shift_size further samples
\* emit no frame.
FrameCadence ==
    /\ Len(frame_at) = Len(frames)
    /\ \A i \in 2..Len(frame_at) : frame_at[i] - frame_at[i - 1] = params.shift_size
    /\ frame_at # <<>> => consumed - frame_at[Len(frame_at)] < params.shift_size

FrameCadenceWitness ==
    /\ Len(frame_at) >= 2
    /\ consumed > frame_at[Len(frame_at)]

\* C5: packets are received in the order they were sent and samples are
\* consumed in arrival order, so every sample of frame i was captured no
\* later than every sample that first appears in frame i+1.
FramesTimeOrdered ==
    /\ IsIncreasing(buffer_raw \o cur \o Flatten(chan))
    /\ \A i \in 1..Len(frames) : IsIncreasing(FrameSamples(frames[i]))
    /\ \A i \in 1..(Len(frames) - 1) :
         \A s \in Range(FrameSamples(frames[i])) :
           \A n \in Range(FrameSamples(frames[i + 1])) \ Range(FrameSamples(frames[i])) :
             s <= n

FramesTimeOrderedWitness ==
    /\ Len(frames) >= 2
    /\ chan # <<>>
    /\ epoch >= 1

\* C6: at most one device input stream exists in any state, and none exists
\* while the capture stage reads the configuration and opens the next one.
GenerationsSequential ==
    /\ Cardinality(streams) <= 1
    /\ cap_pc \in {"lock_set", "read_set", "open"} => streams = {}

GenerationsSequentialWitness ==
    \E s \in streams : s.epoch >= 1 /\ s.playing

\* C7: a capture stage woken from the restart wait while quit is set leaves
\* the wait and tears its stream down, even if the restart flag is false.
WaitLeavesOnQuit ==
    [][(cap_pc = "woken" /\ quit /\ cap_pc' # "woken")
            => (cap_pc' = "quit_check" /\ streams' = {})]_vars

NoStreamAtCaptureExit == cap_pc = "done" => streams = {}

NoStreamAtCaptureExitWitness ==
    /\ cap_pc = "done"
    /\ epoch >= 1
    /\ clock >= 1

\* C10: the transform stage ends only when every sender is dropped and every
\* queued packet and sample has been consumed, and once every sender is
\* dropped it eventually ends.
TransformTermination ==
    /\ [](fft_pc = "done" =>
            (senders = {} /\ chan = <<>> /\ cur = <<>> /\ consumed = clock))
    /\ (senders = {}) ~> (fft_pc = "done")

TransformTerminationWitness ==
    /\ fft_pc = "done"
    /\ consumed >= 1

\* ---------------------------------------- claims on the derived parameters
Derived == fft_pc \notin {"lock_set", "params"}

Degenerate(set) ==
    \/ set.width = 0
    \/ /\ set.width # 0
       /\ \/ DeriveParams(set).window_size = 0
          \/ DeriveParams(set).fft_size \div 2 <= 1

\* C11: for every configuration whose image width is 0, whose window_size
\* computes to 0 or whose fft_size / 2 - 1 is not positive, the transform
\* stage rejects the configuration: it never panics (no division by zero,
\* no u32 underflow or overflow) and never enters its consumption loop.
DegenerateRejected ==
    (Derived /\ Degenerate(settings)) => fft_pc = "rejected"

\* (rate * 120) div img_x on the integers, without forming the product
QuotientOfProduct(rate, img_x) ==
    (rate \div img_x) * FrameSec + ((rate % img_x) * FrameSec) \div img_x

\* C15: for every sample rate and every image width above 0 the stage
\* computes samples_per_pixel_x = (sample_rate * 120) div image_width,
\* overlap_samples = round(0.33 * samples_per_pixel_x), window_size =
\* samples_per_pixel_x + 2 * overlap_samples and shift_size = window_size -
\* overlap_samples, so that 0 <= overlap_samples <= shift_size <=
\* window_size; 67 samples per pixel give 22, 111 and 89.
DerivedWindowParameters ==
    (Derived /\ settings.width > 0) =>
        /\ params.samples_per_pixel_x = QuotientOfProduct(settings.rate, settings.width)
        /\ params.overlap_samples = (33 * params.samples_per_pixel_x + 50) \div 100
        /\ params.window_size = params.samples_per_pixel_x + 2 * params.overlap_samples
        /\ params.shift_size = params.window_size - params.overlap_samples
        /\ 0 <= params.overlap_samples
        /\ params.overlap_samples <= params.shift_size
        /\ params.shift_size <= params.window_size
        /\ params.samples_per_pixel_x = 67 =>
               /\ params.overlap_samples = 22
               /\ params.window_size = 111
               /\ params.shift_size = 89

IsPowerOfTwo(n) == \E k \in 0..30 : n = 2 ^ k

\* C16: for every window_size of at least 1, fft_size is the smallest power
\* of two that is at least window_size: a power of two, not below
\* window_size, with fft_size / 2 below window_size when window_size > 1;
\* a window_size that is a power of two is its own fft_size, and 111 gives
\* 128.
FftSizeSmallestPowerOfTwo ==
    (Derived /\ params.window_size >= 1) =>
        /\ IsPowerOfTwo(params.fft_size)
        /\ params.fft_size >= params.window_size
        /\ params.window_size > 1 => params.fft_size \div 2 < params.window_size
        /\ IsPowerOfTwo(params.window_size) => params.fft_size = params.window_size
        /\ params.window_size = 111 => params.fft_size = 128

\* -------------------------------------------- claims on the generations
\* the parameters a frame was computed with: its window and its FFT size
ComputedWith(f, p) ==
    /\ Len(FrameSamples(f)) = p.window_size
    /\ f.norm = p.fft_size

\* C12: every frame is computed with the parameters derived from the
\* configuration of the generation its samples belong to: after a
\* configuration change the transform stage abandons its sliding buffer and
\* derives window_size, shift_size, overlap_samples and fft_size again before
\* it processes a sample of the new generation.
TransformFollowsGenerations ==
    \A i \in 1..Len(frames) :
        \A s \in Range(FrameSamples(frames[i])) :
            \E w \in Widths :
                ComputedWith(frames[i],
                             DeriveParams([rate |-> captured_at[s], width |-> w]))

\* ------------------------------------------- claims on the frame signal
ImgWaiting == img_pc \in {"lock", "parked", "woken"}

\* C13: the frame-ready flag is set and tested under one mutex, so no
\* wake-up is lost: the consumer is never parked while the flag is true, and
\* a consumer that is parked, or about to test the flag, when a frame is
\* emitted eventually passes its wait and sees the flag true.
FrameReadyNoLostWakeup ==
    /\ [](img_pc = "parked" => ~start)
    /\ (fft_pc = "notify" /\ ImgWaiting) ~> (img_pc = "quit_check" /\ start)

FrameReadyNoLostWakeupWitness ==
    /\ img_pc = "woken"
    /\ start
    /\ Len(frames) = 1
    /\ fft_pc = "sample"

\* --------------------------------------------- claims on the frame store
\* windows completed by the samples consumed so far
WindowsCompleted(n, p) ==
    IF n < p.window_size THEN 0 ELSE 1 + (n - p.window_size) \div p.shift_size

\* C14: every frame in the store has exactly fft_size / 2 values, the bins
\* 0 .. fft_size / 2 - 1; the store holds exactly one frame per completed
\* window; and it is append-only: it never shrinks and a stored frame never
\* changes.
FrameShapeAndCount ==
    /\ [](\A i \in 1..Len(frames) :
             frames[i].bins = [k \in 1..(params.fft_size \div 2) |-> k - 1])
    /\ [](IF fft_pc \in {"lock_set", "params"}
          THEN frames = <<>>
          ELSE Len(frames) = WindowsCompleted(consumed, params))
    /\ [][/\ Len(frames') >= Len(frames)
          /\ SubSeq(frames', 1, Len(frames)) = frames]_vars

FrameShapeAndCountWitness ==
    /\ Len(frames) >= 2
    /\ fft_pc = "sample"
    /\ cur # <<>>

\* ---------------------------------------- claims on the settings mutex
\* C17: the settings mutex is never held across a blocking operation: the
\* capture stage holds it only while it reads the settings, not while it
\* opens the device or waits for a restart; the transform stage holds it
\* only while it reads the settings, not in its receive loop; and whoever
\* holds it can finish its read and release it without waiting for anything,
\* so a configuration update waits for at most one such read.
SettingsMutexShortHold ==
    /\ set_lock = "capture" => cap_pc = "read_set"
    /\ set_lock = "fft" => fft_pc = "params"
    /\ cap_pc \in {"open", "play", "lock_restart", "parked", "woken"}
          => set_lock # "capture"
    /\ fft_pc \in {"recv", "sample", "notify"} => set_lock # "fft"
    /\ set_lock # "free" => ENABLED (CapReadSettings \/ FftReadSettings)

SettingsMutexShortHoldWitness ==
    /\ cap_pc = "parked"
    /\ fft_pc = "recv"
    /\ chan = <<>>
    /\ set_lock = "free"
    /\ ENABLED CtlSetRate

WindowLengthPrecondition ==
    \A i \in 1..Len(calls) :
        (calls[i].shape # "rectangle" /\ calls[i].length <= 1) =>
            /\ calls[i].result.status = "config_error"
            /\ \A k \in 1..Len(calls[i].result.out) : ~IsNaN(calls[i].result.out[k])

\* --------------------------------------- claims on the transform's memory
\* window k of the sample stream: shift_size samples after window k - 1
InputWindow(k, p) == [i \in 1..p.window_size |-> (k - 1) * p.shift_size + i]

\* C20: the frames are a function of the derived parameters and of the
\* input samples alone: frame k is the transform of window k of the sample
\* stream, computed from an empty work buffer, whatever the packets, the
\* restarts and the interleaving were.  Two runs with the same parameters
\* and the same samples therefore emit the same frames, and nothing but the
\* overlap tail is carried from one window step to the next.
TransformDeterminism ==
    /\ \A k \in 1..Len(frames) :
          frames[k] = MakeFrame(0, InputWindow(k, params), params)
    /\ fft_pc \in {"recv", "sample", "notify"} =>
          buffer_raw = [i \in 1..Len(buffer_raw) |->
                           consumed - Len(buffer_raw) + i]

TransformDeterminismWitness ==
    /\ Len(frames) >= 2
    /\ buffer_proc > 0
    /\ epoch >= 1
    /\ chan # <<>>

\* ------------------------------------------ claims on the configuration
\* main.rs 186: sample_last - sample_first left u32
RangeUnderflow(set) ==
    \E i \in 1..Len(Faults(set)) :
        Faults(set)[i] = [line |-> 186, kind |-> "overflow"]

\* C21: in every state reachable by the command-line override of the
\* frequency range and by changes of the minimum and maximum spin buttons,
\* the stored range has frequency_low < frequency_high, and the transform
\* stage's sample_last - sample_first never underflows.
FrequencyRangeInvariant ==
    /\ settings.freq_min < settings.freq_max
    /\ Derived => ~RangeUnderflow(settings)

\* the file exists, is TOML and holds a value of the right type for every
\* field it names
Deserializes(file) ==
    /\ file.exists
    /\ SplitLines(file.cells).ok
    /\ ~DuplicateKey(SplitLines(file.cells).lines)
    /\ \A i \in 1..Len(SplitLines(file.cells).lines) :
          WellTyped(SplitLines(file.cells).lines[i])

\* C22: read_config returns Ok when the file named by the config path exists
\* and parses, and Err when the file does not exist or cannot be
\* deserialized; whenever it returns Err the Settings value is exactly what
\* it was before the call.
ReadConfigOutcome ==
    \A i \in 1..Len(calls) :
        calls[i].op = "read_config" =>
            /\ calls[i].ret \in {"Ok", "Err"}
            /\ calls[i].ret = "Ok" <=> Deserializes(calls[i].file)
            /\ ~calls[i].file.exists => calls[i].ret = "Err"
            /\ calls[i].file = FileOf(Line("rate", <<"fast">>)) => calls[i].ret = "Err"
            /\ calls[i].file \in {FileOf(Coded(s)) : s \in ConfSettings}
                   => calls[i].ret = "Ok"
            /\ calls[i].ret = "Err" => calls[i].self_after = calls[i].self

ReadConfigOutcomeWitness ==
    /\ Len(calls) = 2
    /\ calls[1].op = "write_config" /\ calls[1].ret = "Ok"
    /\ calls[2].op = "read_config" /\ calls[2].ret = "Err"
    /\ calls[2].file.exists
    /\ calls[2].self.export_path = <<"export">>

\* C30: for every Settings value s and writable config path, write_config on
\* s followed by read_config from the same path, on a Settings whose config
\* path is that file, yields a Settings equal to s, export path included,
\* also when the file existed with longer contents before the write.
ConfigRoundTrip ==
    \A i \in 1..(Len(calls) - 1) :
        (/\ calls[i].op = "write_config" /\ calls[i].ret = "Ok"
         /\ calls[i + 1].op = "read_config")
            => /\ calls[i + 1].ret = "Ok"
               /\ calls[i + 1].self_after = calls[i].self

\* ------------------------------------------------- claims on the restart
\* the configuration a stream opened now would be built from
Requested == [device |-> settings.device, rate |-> settings.rate]

\* C23: a restart request raised at any moment, also while the capture stage
\* is between its settings read and its wait, is eventually followed by the
\* capture stage tearing its stream down and reading the configuration
\* again; the capture stage never stays parked for ever with a stream built
\* from a configuration older than the last request.
RestartNeverLost ==
    /\ (ctl_pc = "changed") ~> (quit \/ cap_cfg = Requested)
    /\ []<>(quit \/ cap_pc # "parked" \/ cap_cfg = Requested)

\* ------------------------------------------- claims on the image thread
\* the image thread has passed its wait, n frames having been emitted
PassedWait(n) == img_pc = "quit_check" /\ Len(frame_at) = n

\* the most frames a run can emit: the frames of the shortest window
MaxFrames ==
    Max({WindowsCompleted(MaxSamples, DeriveParams([rate |-> r, width |-> w])) :
            r \in Rates, w \in Widths})

\* C24: the image thread passes its wait on the frame-ready condition
\* variable at most once per emitted frame: once it has passed with n frames
\* emitted and is back at the top of its loop, it passes again only when
\* more than n frames have been emitted; and as the frames come to an end it
\* stays blocked in the wait instead of iterating its loop.
ConsumerSuspension ==
    /\ \A n \in 1..MaxFrames :
          [](PassedWait(n) =>
                [](img_pc = "lock" =>
                      [](img_pc = "quit_check" => Len(frame_at) > n)))
    /\ <>[](img_pc \in {"parked", "woken", "done"})

\* ------------------------------------------- claims on the FFT input
\* C25: when the forward FFT runs, the work buffer holds exactly fft_size
\* values: window_size products of a sample and its coefficient, followed by
\* fft_size - window_size zeros, given a window of exactly window_size
\* coefficients.
FftInputShape ==
    fft_pc = "recv" =>
        LET input == FftInputLengths(params, Len(WindowFunc(params.window_size)))
        IN  /\ input.products = params.window_size
            /\ input.zeros >= 0
            /\ input.products + input.zeros = params.fft_size

\* ------------------------------------- claims on the consumption loop
InLoop == fft_pc \in {"recv", "sample", "notify"}

\* C26: from the moment the transform stage enters its consumption loop
\* until the loop ends, window_size, shift_size, overlap_samples, fft_size
\* and the window coefficients are changed by no action of any thread,
\* updates of the shared settings and restarts of the capture stage included.
ParamsFrozenInLoop ==
    [][InLoop =>
          /\ params' = params
          /\ WindowFunc(params'.window_size) = WindowFunc(params.window_size)]_vars

ParamsFrozenInLoopWitness ==
    /\ fft_pc = "sample"
    /\ cur # <<>>
    /\ epoch >= 1
    /\ params # DeriveParams(settings)

\* ----------------------------------- claims on the packet boundaries
\* C27: the frames emitted and the sliding buffer depend only on the
\* concatenation of the samples received, not on their split into packets:
\* whatever packets brought the first n samples (empty ones, ones longer
\* than a window), the stage holds the frames and the buffers it holds after
\* these n samples arrived as one packet.
PacketBoundaryIndependence ==
    InLoop =>
        [raw |-> buffer_raw, proc |-> buffer_proc, frames |-> frames]
            = Consume(LoopStart, [i \in 1..consumed |-> i], params)

PacketBoundaryIndependenceWitness ==
    /\ fft_pc = "notify"
    /\ Len(frames) = 1
    /\ Len(cur) >= params.shift_size
    /\ chan # <<>>
    /\ chan[1] = <<>>

\* ----------------------------------- claims on the channel's senders
\* C28: the packet channel is open exactly while the capture thread is
\* alive: the thread owns the original sender until it returns, every stream
\* that exists has its callback's clone, no sender is left once the thread
\* has returned, and the transform stage leaves its receive loop only after
\* the capture thread has returned (never at a restart, even while no stream
\* exists).
ChannelOpenWhileCapturing ==
    /\ cap_pc # "done" <=> "orig" \in senders
    /\ cap_pc = "done" <=> senders = {}
    /\ streams # {} => "clone" \in senders
    /\ fft_pc = "done" => cap_pc = "done"

ChannelOpenWhileCapturingWitness ==
    /\ epoch >= 1
    /\ cap_pc = "lock_set"
    /\ streams = {}
    /\ senders = {"orig"}
    /\ chan = <<>>
    /\ fft_pc = "recv"

\* ------------------------------------------- claims on the lock order
\* thread t can be kept waiting by thread u
WaitsOn(t, u) == t # u /\ Wants(t) \cap Held(u) # {}

\* C29: in every state of every interleaving, no set of threads wait on each
\* other's mutexes in a cycle, and a thread that holds a mutex and locks
\* another one is the image thread, holding the frame-ready mutex and
\* locking the quit mutex; so nobody locks the frame-ready mutex while
\* holding the quit mutex, and the capture thread holds neither the restart
\* nor the settings mutex when it locks the quit mutex.
LockAcquisitionAcyclic ==
    [](\* a thread that is waited on holds a mutex, so a cycle is made of
       \* threads that hold one
       /\ \A S \in (SUBSET Holders) \ {{}} :
              \E t \in S : \A u \in S : ~WaitsOn(t, u)
       /\ \A t \in Holders :
              Wants(t) # {}
                  => t = "image" /\ Held(t) = {"start"} /\ Wants(t) = {"quit"})

LockAcquisitionAcyclicWitness ==
    /\ img_pc = "quit_check"
    /\ Held("image") = {"start"}
    /\ WaitsOn("fft", "image")
    /\ cap_pc = "quit_check"
    /\ epoch >= 1

\* ----------------------------------- claims on the command line
\* the fields a command line names: a flag names its field when it is
\* present, an option when it has a value
Given(cli) ==
    (IF cli.verbose > 0 THEN {"verbose"} ELSE {})
    \cup (IF cli.window THEN {"use_window_xy"} ELSE {})
    \cup (IF cli.export_images THEN {"export_enable"} ELSE {})
    \cup (IF cli.brightness # <<>> THEN {"brightness"} ELSE {})
    \cup (IF cli.frequency_range # <<>> THEN {"freq_min", "freq_max"} ELSE {})
    \cup (IF cli.rate # <<>> THEN {"rate"} ELSE {})

\* the stored range is ordered whenever a range was given
RangeOrdered(c) ==
    c.cli.frequency_range # <<>> /\ c.ret = "Ok"
        => c.self_after.freq_min <= c.self_after.freq_max

\* C31: arg_override always returns Ok, leaves every field whose argument
\* was not given (verbose, use_window_xy and export_enable with their flags
\* absent included) equal to its value before the call, and stores a given
\* frequency range ordered low <= high.
ArgOverrideFrame ==
    \A i \in 1..Len(calls) :
        LET c == calls[i] IN
        /\ c.ret = "Ok"
        /\ \A f \in (DOMAIN c.self) \ Given(c.cli) : c.self_after[f] = c.self[f]
        /\ RangeOrdered(c)
====
